---- MODULE Spec2Model ----
(***************************************************************************)
(* Model of the email pipeline of iatencion-cliente:                       *)
(*   src/src/tools/EmailTools.py  inbox snapshot and thread identity       *)
(*   src/src/nodes.py             the graph nodes and routing functions    *)
(*   src/src/graph.py             the edges of the workflow graph          *)
(* Header values are strings, modelled as sequences of one-character       *)
(* strings; an absent header is the empty string, as msg.get(key, "").     *)
(***************************************************************************)
EXTENDS Integers, Sequences, FiniteSets, TLC

(* ---------------------------- bounds ----------------------------------- *)
\* largest number of unread messages one fetch returns
MaxBatch == 2
\* largest number of queries the query designer returns
MaxQueries == 1
\* largest query list handed to retrieve_from_rag on its own
MaxEnrichQueries == 3
\* largest batch handed to fetch_unanswered_emails on its own
MaxSnapBatch == 3

(* ------------------------ program constants ---------------------------- *)
\* must_rewrite stops once trials >= 3
MAX_TRIALS == 3

\* the mailbox address of the system itself (EMAIL_CONFIG["email_user"])
email_user == <<"m">>

Categories ==
    {"product_enquiry", "lead_enquiry", "customer_complaint",
     "customer_feedback", "unrelated", "spam"}

(* --------------------------- string helpers ---------------------------- *)
\* str.strip(chars): drop leading and trailing characters that are in chars
RECURSIVE LStrip(_, _)
LStrip(s, chars) ==
    IF s # <<>> /\ Head(s) \in chars THEN LStrip(Tail(s), chars) ELSE s

RECURSIVE RStrip(_, _)
RStrip(s, chars) ==
    IF s # <<>> /\ s[Len(s)] \in chars
    THEN RStrip(SubSeq(s, 1, Len(s) - 1), chars)
    ELSE s

Strip(s, chars) == RStrip(LStrip(s, chars), chars)

\* str.split(): the whitespace-separated tokens of s, in order
RECURSIVE SplitFrom(_, _, _)
SplitFrom(s, cur, acc) ==
    IF s = <<>>
    THEN IF cur = <<>> THEN acc ELSE Append(acc, cur)
    ELSE IF Head(s) = " "
         THEN SplitFrom(Tail(s), <<>>,
                        IF cur = <<>> THEN acc ELSE Append(acc, cur))
         ELSE SplitFrom(Tail(s), Append(cur, Head(s)), acc)

Split(s) == SplitFrom(s, <<>>, <<>>)

\* needle in hay (substring test)
Contains(hay, needle) ==
    \E i \in 0..(Len(hay) - Len(needle)) :
        SubSeq(hay, i + 1, i + Len(needle)) = needle

\* uuid.uuid4(): the n-th identifier drawn in this run; never a header value
Uuid4(n) == <<"uuid", ToString(n)>>

(* ------------------------- thread identity ----------------------------- *)
\* _get_thread_id looking at In-Reply-To before References
GetThreadIdInReplyToFirst(msg, u) ==
    LET references == Split(msg.references)
        in_reply_to == msg.in_reply_to
        message_id == msg.message_id
    IN  IF in_reply_to # <<>>
        THEN [key |-> Strip(in_reply_to, {"<", ">"}), drew |-> 0]
        ELSE IF references # <<>>
        THEN [key |-> Strip(references[1], {"<", ">"}), drew |-> 0]
        ELSE IF message_id # <<>>
        THEN [key |-> Strip(message_id, {"<", ">"}), drew |-> 0]
        ELSE [key |-> Uuid4(u + 1), drew |-> 1]

\* _get_thread_id giving one fixed key to every message without headers
GetThreadIdFixedFallback(msg, u) ==
    LET references == Split(msg.references)
        in_reply_to == msg.in_reply_to
        message_id == msg.message_id
    IN  IF references # <<>>
        THEN [key |-> Strip(references[1], {"<", ">"}), drew |-> 0]
        ELSE IF in_reply_to # <<>>
        THEN [key |-> Strip(in_reply_to, {"<", ">"}), drew |-> 0]
        ELSE IF message_id # <<>>
        THEN [key |-> Strip(message_id, {"<", ">"}), drew |-> 0]
        ELSE [key |-> Uuid4(0), drew |-> 0]

\* _get_thread_id(msg); u is the number of uuids drawn so far.
\* Result: the key, and whether a fresh uuid was drawn for it.
GetThreadId(msg, u) ==
    LET references == Split(msg.references)
        in_reply_to == msg.in_reply_to
        message_id == msg.message_id
    IN  IF references # <<>>
        THEN [key |-> Strip(references[1], {"<", ">"}), drew |-> 0]
        ELSE IF in_reply_to # <<>>
        THEN [key |-> Strip(in_reply_to, {"<", ">"}), drew |-> 0]
        ELSE IF message_id # <<>>
        THEN [key |-> Strip(message_id, {"<", ">"}), drew |-> 0]
        ELSE [key |-> Uuid4(u + 1), drew |-> 1]

\* email.utils.parseaddr(header)[1]: the address part of a From header
ParseAddr(from) == from.addr

\* _get_email_info(msg): the Email record built from a raw message
GetEmailInfo(msg, u) ==
    [id |-> Strip(msg.message_id, {"<", ">"}),
     threadId |-> GetThreadId(msg, u).key,
     messageId |-> msg.message_id,
     references |-> msg.references,
     sender |-> ParseAddr(msg.from),
     body |-> msg.body]

\* _should_skip_email that skips nothing
ShouldSkipEmailNever(email_info) == FALSE

\* _should_skip_email(email_info)
ShouldSkipEmail(email_info) == Contains(email_info.sender, email_user)

(* ------------------------------ replies -------------------------------- *)
\* _create_reply_message(email_info, reply_text, send); u is the number of
\* uuids drawn so far. Result: the message built, and whether a uuid was
\* drawn for its Message-ID.
CreateReplyMessage(email_info, reply_text, send, u) ==
    LET threaded == email_info.messageId # <<>>
        fresh == threaded /\ send
    IN  [msg |->
           [to |-> email_info.sender,
            from |-> [name |-> "", addr |-> email_user],
            in_reply_to |-> IF threaded THEN email_info.messageId ELSE <<>>,
            references |->
                IF threaded
                THEN Strip(email_info.references \o <<" ">>
                               \o email_info.messageId, {" "})
                ELSE <<>>,
            message_id |-> IF fresh
                           THEN <<"<">> \o Uuid4(u + 1) \o <<">">>
                           ELSE <<>>,
            body |-> reply_text],
         drew |-> IF fresh THEN 1 ELSE 0]

(* --------------------------- inbox snapshot ---------------------------- *)
\* fetch_draft_replies(): one {threadId} entry per message of the drafts
\* folder; acc is [ids, u]
RECURSIVE DraftThreadIds(_, _)
DraftThreadIds(drafts, acc) ==
    IF drafts = <<>> THEN acc
    ELSE LET t == GetThreadId(Head(drafts), acc.u)
         IN  DraftThreadIds(Tail(drafts),
                 [ids |-> acc.ids \cup {t.key}, u |-> acc.u + t.drew])

\* ScanRecent without the seen_threads check
RECURSIVE ScanRecentNoSeen(_, _, _)
ScanRecentNoSeen(recent, threads_with_drafts, acc) ==
    IF recent = <<>> THEN acc
    ELSE
      LET email_msg == Head(recent)
          t == GetThreadId(email_msg, acc.u)
          u1 == acc.u + t.drew
      IN  IF t.key \in threads_with_drafts
          THEN ScanRecentNoSeen(Tail(recent), threads_with_drafts,
                                [acc EXCEPT !.u = u1])
          ELSE
            LET email_info == GetEmailInfo(email_msg, u1)
                u2 == u1 + GetThreadId(email_msg, u1).drew
            IN  IF ShouldSkipEmail(email_info)
                THEN ScanRecentNoSeen(Tail(recent), threads_with_drafts,
                                      [acc EXCEPT !.u = u2])
                ELSE ScanRecentNoSeen(Tail(recent), threads_with_drafts,
                                      [seen |-> acc.seen,
                                       out |-> Append(acc.out, email_info),
                                       u |-> u2])

\* ScanRecent without the threads_with_drafts check
RECURSIVE ScanRecentNoDrafts(_, _, _)
ScanRecentNoDrafts(recent, threads_with_drafts, acc) ==
    IF recent = <<>> THEN acc
    ELSE
      LET email_msg == Head(recent)
          rest == Tail(recent)
          t == GetThreadId(email_msg, acc.u)
          thread_id == t.key
          u1 == acc.u + t.drew
          email_info == GetEmailInfo(email_msg, u1)
          u2 == u1 + GetThreadId(email_msg, u1).drew
          seen2 == acc.seen \cup {thread_id}
      IN  IF thread_id \in acc.seen
          THEN ScanRecentNoDrafts(rest, threads_with_drafts,
                   [acc EXCEPT !.u = u1])
          ELSE IF ShouldSkipEmail(email_info)
          THEN ScanRecentNoDrafts(rest, threads_with_drafts,
                   [acc EXCEPT !.seen = seen2, !.u = u2])
          ELSE ScanRecentNoDrafts(rest, threads_with_drafts,
                   [seen |-> seen2,
                    out |-> Append(acc.out, email_info),
                    u |-> u2])

\* ScanRecent adding the thread to seen_threads only after the sender check
RECURSIVE ScanRecentSeenLate(_, _, _)
ScanRecentSeenLate(recent, threads_with_drafts, acc) ==
    IF recent = <<>> THEN acc
    ELSE
      LET email_msg == Head(recent)
          rest == Tail(recent)
          t == GetThreadId(email_msg, acc.u)
          thread_id == t.key
          u1 == acc.u + t.drew
          email_info == GetEmailInfo(email_msg, u1)
          u2 == u1 + GetThreadId(email_msg, u1).drew
          seen2 == acc.seen \cup {thread_id}
      IN  IF thread_id \in acc.seen
          THEN ScanRecentSeenLate(rest, threads_with_drafts,
                   [acc EXCEPT !.u = u1])
          ELSE IF thread_id \in threads_with_drafts
          THEN ScanRecentSeenLate(rest, threads_with_drafts,
                   [acc EXCEPT !.u = u1])
          ELSE IF ShouldSkipEmail(email_info)
          THEN ScanRecentSeenLate(rest, threads_with_drafts,
                   [acc EXCEPT !.u = u2])
          ELSE ScanRecentSeenLate(rest, threads_with_drafts,
                   [seen |-> seen2,
                    out |-> Append(acc.out, email_info),
                    u |-> u2])

\* ScanRecent going through recent_emails from its end
RECURSIVE ScanRecentNewestFirst(_, _, _)
ScanRecentNewestFirst(recent, threads_with_drafts, acc) ==
    IF recent = <<>> THEN acc
    ELSE
      LET email_msg == recent[Len(recent)]
          rest == SubSeq(recent, 1, Len(recent) - 1)
          t == GetThreadId(email_msg, acc.u)
          thread_id == t.key
          u1 == acc.u + t.drew
          email_info == GetEmailInfo(email_msg, u1)
          u2 == u1 + GetThreadId(email_msg, u1).drew
          seen2 == acc.seen \cup {thread_id}
      IN  IF thread_id \in acc.seen
          THEN ScanRecentNewestFirst(rest, threads_with_drafts,
                   [acc EXCEPT !.u = u1])
          ELSE IF thread_id \in threads_with_drafts
          THEN ScanRecentNewestFirst(rest, threads_with_drafts,
                   [acc EXCEPT !.u = u1])
          ELSE IF ShouldSkipEmail(email_info)
          THEN ScanRecentNewestFirst(rest, threads_with_drafts,
                   [acc EXCEPT !.seen = seen2, !.u = u2])
          ELSE ScanRecentNewestFirst(rest, threads_with_drafts,
                   [seen |-> seen2,
                    out |-> Append(acc.out, email_info),
                    u |-> u2])

\* the loop of fetch_unanswered_emails over recent_emails;
\* acc is [seen, out, u]
RECURSIVE ScanRecent(_, _, _)
ScanRecent(recent, threads_with_drafts, acc) ==
    IF recent = <<>> THEN acc
    ELSE
      LET email_msg == Head(recent)
          t == GetThreadId(email_msg, acc.u)
          thread_id == t.key
          u1 == acc.u + t.drew
      IN  IF thread_id \in acc.seen
          THEN ScanRecent(Tail(recent), threads_with_drafts,
                          [acc EXCEPT !.u = u1])
          ELSE IF thread_id \in threads_with_drafts
          THEN ScanRecent(Tail(recent), threads_with_drafts,
                          [acc EXCEPT !.u = u1])
          ELSE
            LET email_info == GetEmailInfo(email_msg, u1)
                u2 == u1 + GetThreadId(email_msg, u1).drew
                seen2 == acc.seen \cup {thread_id}
            IN  IF ShouldSkipEmail(email_info)
                THEN ScanRecent(Tail(recent), threads_with_drafts,
                                [acc EXCEPT !.seen = seen2, !.u = u2])
                ELSE ScanRecent(Tail(recent), threads_with_drafts,
                                [seen |-> seen2,
                                 out |-> Append(acc.out, email_info),
                                 u |-> u2])

\* fetch_unanswered_emails giving up when fetch_draft_replies raised
FetchUnansweredEmailsDraftsFatal(recent, drafts, draftsOk, u) ==
    IF recent = <<>> \/ ~draftsOk
    THEN [out |-> <<>>, u |-> u, drafts |-> {}, seen |-> {}]
    ELSE
      LET d == DraftThreadIds(drafts, [ids |-> {}, u |-> u])
          r == ScanRecent(recent, d.ids,
                          [seen |-> {}, out |-> <<>>, u |-> d.u])
      IN  [out |-> r.out, u |-> r.u, drafts |-> d.ids, seen |-> r.seen]

\* fetch_unanswered_emails(): recent is the result of fetch_recent_emails
\* ([] when the transport failed), draftsOk tells whether fetch_draft_replies
\* returned (otherwise the except branch leaves threads_with_drafts empty).
\* Result: [out, u, drafts, seen], drafts being threads_with_drafts and
\* seen being seen_threads when the loop ends.
FetchUnansweredEmails(recent, drafts, draftsOk, u) ==
    IF recent = <<>> THEN [out |-> <<>>, u |-> u, drafts |-> {}, seen |-> {}]
    ELSE
      LET d == IF draftsOk THEN DraftThreadIds(drafts, [ids |-> {}, u |-> u])
               ELSE [ids |-> {}, u |-> u]
          r == ScanRecent(recent, d.ids,
                          [seen |-> {}, out |-> <<>>, u |-> d.u])
      IN  [out |-> r.out, u |-> r.u, drafts |-> d.ids, seen |-> r.seen]

(* ------------------------------ inputs --------------------------------- *)
NoHeader == <<>>
Customer == [name |-> "c", addr |-> <<"c">>]
Myself == [name |-> "m", addr |-> <<"x", "m">>]

\* the unread messages of the mailbox, in the order they arrived
Mailbox ==
    << [message_id |-> <<"<", "a", ">">>, references |-> NoHeader,
        in_reply_to |-> NoHeader, from |-> Customer, body |-> "b1"],
       [message_id |-> <<"<", "b", ">">>,
        references |-> <<"<", "a", ">", " ", "<", "z", ">">>,
        in_reply_to |-> <<"<", "z", ">">>, from |-> Customer, body |-> "b2"],
       [message_id |-> <<"<", "c", ">">>, references |-> NoHeader,
        in_reply_to |-> <<"<", "d", ">">>, from |-> Customer, body |-> "b3"],
       [message_id |-> NoHeader, references |-> NoHeader,
        in_reply_to |-> NoHeader, from |-> Customer, body |-> "b4"],
       [message_id |-> <<"<", "e", ">">>, references |-> NoHeader,
        in_reply_to |-> NoHeader, from |-> Myself, body |-> "b5"] >>

Reverse(q) == [i \in 1..Len(q) |-> q[Len(q) + 1 - i]]

\* the messages of q at the positions in S, order kept
RECURSIVE Pick(_, _)
Pick(q, S) ==
    IF q = <<>> THEN <<>>
    ELSE LET rest == Pick(Tail(q), { i - 1 : i \in S \ {1} })
         IN  IF 1 \in S THEN <<Head(q)>> \o rest ELSE rest

\* the contents the drafts folder may have when the run starts
DraftFolders ==
    { <<>>,
      << [message_id |-> NoHeader,
          references |-> <<"<", "d", ">", " ", "<", "c", ">">>,
          in_reply_to |-> <<"<", "c", ">">>, from |-> Myself,
          body |-> "r3"] >> }

\* what fetch_recent_emails may return: up to MaxBatch of the unread
\* messages, in their arrival order, for either order of arrival
Batches ==
    { Pick(m, S) : m \in {Mailbox, Reverse(Mailbox)},
                   S \in { T \in SUBSET (1..Len(Mailbox)) :
                              Cardinality(T) <= MaxBatch } }

\* reply before any reply was built
NoReply ==
    [to |-> <<>>, from |-> [name |-> "", addr |-> <<>>],
     in_reply_to |-> <<>>, references |-> <<>>, message_id |-> <<>>,
     body |-> <<>>]

\* current_email before any message was categorized
NoEmail ==
    [id |-> <<>>, threadId |-> <<>>, messageId |-> <<>>, references |-> <<>>,
     sender |-> <<>>, body |-> "none"]

\* the sentinel of generate_rag_answer
null == <<"n", "u", "l", "l">>

\* the k-th query designed for a message and the answer looked up for it
Query(k) == <<"q", ToString(k)>>
Answer(k) == <<"r", ToString(k)>>

\* per-message ledger of the calls made with that message's data
NoCalls ==
    [categorized |-> 0, enriched |-> 0, lookups |-> 0, writes |-> 0,
     verifies |-> 0, stops |-> 0, escalations |-> 0, skips |-> 0,
     pops |-> 0, sends |-> 0, drafts |-> 0, raised |-> 0, route |-> ""]

SeqToSet(q) == { q[i] : i \in DOMAIN q }

(* ---------------------------- mailbox tools ---------------------------- *)
\* a configuration value: None, the empty string or a text
Unset == [set |-> FALSE, text |-> <<>>]
Empty == [set |-> TRUE, text |-> <<>>]
Text(t) == [set |-> TRUE, text |-> t]

\* not value
Falsy(value) == ~value.set \/ value.text = <<>>

\* required_fields of _validate_config, in its order
required_fields == <<"email_user", "email_pass", "imap_server", "smtp_server">>

\* the missing list of _validate_config when only None counts as missing
MissingFieldsUnsetOnly(cfg) ==
    SelectSeq(required_fields, LAMBDA field : ~cfg[field].set)

\* the missing list of _validate_config
MissingFields(cfg) ==
    SelectSeq(required_fields, LAMBDA field : Falsy(cfg[field]))

\* no EmailToolsClass object
NoTools ==
    [status |-> "none", missing |-> <<>>, email_user |-> Unset,
     email_pass |-> Unset, imap_server |-> Unset, smtp_server |-> Unset,
     smtp_port |-> 0]

\* EmailToolsClass(): the object built from cfg, or the ValueError raised
EmailToolsInit(cfg) ==
    LET missing == MissingFields(cfg)
    IN  IF missing # <<>>
        THEN [NoTools EXCEPT !.status = "ValueError", !.missing = missing]
        ELSE [status |-> "built", missing |-> <<>>,
              email_user |-> cfg.email_user, email_pass |-> cfg.email_pass,
              imap_server |-> cfg.imap_server,
              smtp_server |-> cfg.smtp_server, smtp_port |-> cfg.smtp_port]

\* a complete configuration
ValidConfig ==
    [email_user |-> Text(email_user), email_pass |-> Text(<<"p">>),
     imap_server |-> Text(<<"i">>), smtp_server |-> Text(<<"s">>),
     smtp_port |-> 465]

\* the configurations EMAIL_CONFIG may hold: every required setting None,
\* empty or set, and either port
Configs ==
    { [email_user |-> u, email_pass |-> p, imap_server |-> i,
       smtp_server |-> s, smtp_port |-> port] :
        u \in {Unset, Empty, Text(email_user)},
        p \in {Unset, Empty, Text(<<"p">>)},
        i \in {Unset, Empty, Text(<<"i">>)},
        s \in {Unset, Empty, Text(<<"s">>)},
        port \in {465, 587} }

\* connect_to_inbox was not called
NoConnection ==
    [status |-> "idle", logins |-> 0, selects |-> 0, login |-> "uncalled",
     select |-> "uncalled"]

\* the exceptions an imaplib call may raise; "" stands for a call that
\* returns
Errors == {"", "IMAP4.error", "other"}

\* what the try block of connect_to_inbox ends with: a connection is
\* returned, or the except clauses turn an IMAP4.error into a
\* ConnectionError and re-raise anything else
Outcome(error, logins, selects, login, select) ==
    [status |-> IF error = "" THEN "connected"
                ELSE IF error = "IMAP4.error" THEN "ConnectionError"
                ELSE "Exception",
     logins |-> logins, selects |-> selects, login |-> login,
     select |-> select]

\* connect_to_inbox returning the connection although login raised
ConnectToInboxLoginIgnored(open, login, select1, select2) ==
    IF open # "" THEN Outcome(open, 0, 0, "uncalled", "uncalled")
    ELSE IF select1 = "" THEN Outcome("", 1, 1, login, select1)
    ELSE Outcome(select2, 1, 2, login, select1)

\* connect_to_inbox(); open, login, select1 and select2 are what
\* IMAP4_SSL(), login(), select('"INBOX"') and select("INBOX") raise; the
\* outcome records what login and the first select raised
ConnectToInbox(open, login, select1, select2) ==
    IF open # "" THEN Outcome(open, 0, 0, "uncalled", "uncalled")
    ELSE IF login # "" THEN Outcome(login, 1, 0, login, "uncalled")
    ELSE IF select1 = "" THEN Outcome("", 1, 1, "", "")
    ELSE Outcome(select2, 1, 2, "", select1)

(* --------------------------- concurrent runs --------------------------- *)
\* the runs started side by side on one mailbox
Runs == {"A", "B"}

\* a run that has not searched the mailbox yet: the ids its search
\* returned, the messages it fetched, the thread ids of the drafts it
\* found, its queue, and the thread ids it dispatched a reply for
NoRun ==
    [at |-> "search", ids |-> <<>>, batch |-> <<>>, index |-> {},
     queue |-> <<>>, dispatched |-> <<>>]

NoRuns == [r \in Runs |-> NoRun]

\* mail.search(None, '(UNSEEN ...)'): the messages of the mailbox that do
\* not carry the \Seen flag
RECURSIVE Unseen(_, _)
Unseen(mailbox, flagged) ==
    IF mailbox = <<>> THEN <<>>
    ELSE IF Head(mailbox) \in flagged THEN Unseen(Tail(mailbox), flagged)
    ELSE <<Head(mailbox)>> \o Unseen(Tail(mailbox), flagged)

\* create_draft_reply(initial_email, reply_text) once the reply message
\* is built. smtp: the SMTP session up to send_message went through;
\* connection: what connect_to_inbox gave the fallback; folder: a \Drafts
\* folder is listed; select, append: the folder was selected, the APPEND
\* exchange was completed. Result: whether a dict was returned rather
\* than None, and whether the message was stored.
CreateDraftReply(smtp, connection, folder, select, append) ==
    IF smtp THEN [returned |-> TRUE, stored |-> TRUE]
    ELSE IF connection.status # "connected"
    THEN [returned |-> FALSE, stored |-> FALSE]
    ELSE IF ~folder THEN [returned |-> FALSE, stored |-> FALSE]
    ELSE [returned |-> TRUE, stored |-> select /\ append]

(* ------------------------------- state --------------------------------- *)
VARIABLES
    inbox,                  \* unread messages of the mailbox, arrival order
    drafts_folder,          \* messages of the drafts folder
    human_interaction,      \* HUMAN_INTERACTION
    transport,              \* what the mailbox reads of the run did
    uuids,                  \* number of uuid4() values drawn
    pc,                     \* the graph node about to run
    emails,                 \* GraphState["emails"]
    current_email,          \* GraphState["current_email"]
    email_category,         \* GraphState["email_category"]
    rag_queries,            \* GraphState["rag_queries"]
    retrieved_documents,    \* GraphState["retrieved_documents"]
    needs_human_attention,  \* GraphState["needs_human_attention"]
    generated_email,        \* GraphState["generated_email"]
    trials,                 \* GraphState["trials"]
    writer_messages,        \* GraphState["writer_messages"]
    sendable,               \* GraphState["sendable"]
    threads_with_drafts,    \* the draft index fetch_unanswered_emails used
    rag_log,                \* generate_rag_answer calls of the last retrieval
    read,                   \* messages of the mailbox flagged \Seen
    seen_threads,           \* seen_threads when fetch_unanswered_emails ended
    reply,                  \* the last message _create_reply_message built
    config,                 \* EMAIL_CONFIG
    tools,                  \* the EmailToolsClass object, once constructed
    imap,                   \* what connect_to_inbox did and returned
    runs,                   \* the runs working on the mailbox side by side
    queued,                 \* the queue as load_inbox_emails produced it
    calls                   \* ledger: message -> calls made with its data

vars ==
    <<inbox, drafts_folder, human_interaction, transport, uuids, pc, emails,
      current_email, email_category, rag_queries, retrieved_documents,
      needs_human_attention, generated_email, trials, writer_messages,
      sendable, threads_with_drafts, rag_log, read, seen_threads, reply,
      config, tools, imap, runs, queued, calls>>

\* what no node of the graph changes
env == <<inbox, drafts_folder, human_interaction, config, tools, imap, runs>>

\* the tools were constructed from a complete configuration and no
\* connection was opened yet
ToolsReady ==
    /\ config = ValidConfig
    /\ tools = EmailToolsInit(ValidConfig)
    /\ imap = NoConnection

Init ==
    /\ inbox \in Batches
    /\ drafts_folder \in DraftFolders
    /\ human_interaction \in BOOLEAN
    /\ transport = "idle"
    /\ uuids = 0
    /\ pc = "load_inbox_emails"
    /\ emails = <<>>
    /\ current_email = NoEmail
    /\ email_category = ""
    /\ rag_queries = <<>>
    /\ retrieved_documents = <<>>
    /\ needs_human_attention = FALSE
    /\ generated_email = <<>>
    /\ trials = 0
    /\ writer_messages = <<>>
    /\ sendable = FALSE
    /\ threads_with_drafts = {}
    /\ rag_log = <<>>
    /\ read = {}
    /\ seen_threads = {}
    /\ reply = NoReply
    /\ ToolsReady
    /\ runs = NoRuns
    /\ queued = <<>>
    /\ calls = [e \in {} |-> NoCalls]

(* ------------------------------ helpers -------------------------------- *)
\* a pop that removes nothing
PopNothing(q) == q

\* list.pop(): the list without its last element
Pop(q) == SubSeq(q, 1, Len(q) - 1)

\* the first element of the list instead of the one list.pop() returns
First(q) == q[1]

\* the element list.pop() returns
Last(q) == q[Len(q)]

\* one more call of kind f made with the data of message e
Called(led, e, f) ==
    IF e \in DOMAIN led THEN [led EXCEPT ![e][f] = @ + 1] ELSE led

\* an uncaught exception ends the run
Raise(err) ==
    /\ pc' = err
    /\ UNCHANGED <<env, read, seen_threads, reply, threads_with_drafts, rag_log,
                   transport, uuids, emails, current_email,
                   email_category, rag_queries, retrieved_documents,
                   needs_human_attention, generated_email, trials,
                   writer_messages, sendable, queued, calls>>

(* ------------------------------- nodes --------------------------------- *)
\* load_new_emails, then the edge to is_email_inbox_empty;
\* fetch_recent_emails flags every message it returns as \Seen
load_new_emails ==
    /\ pc = "load_inbox_emails"
    /\ \E fetchOk \in BOOLEAN, draftsOk \in BOOLEAN :
         LET recent == IF fetchOk THEN inbox ELSE <<>>
             r == FetchUnansweredEmails(recent, drafts_folder, draftsOk, uuids)
         IN  /\ emails' = r.out
             /\ queued' = r.out
             /\ uuids' = r.u
             /\ calls' = [e \in SeqToSet(r.out) |-> NoCalls]
             /\ threads_with_drafts' = r.drafts
             /\ seen_threads' = r.seen
             /\ transport' = IF fetchOk THEN "fetched" ELSE "fetch_failed"
             /\ read' = SeqToSet(recent)
    /\ pc' = "is_email_inbox_empty"
    /\ UNCHANGED <<env, reply, rag_log, current_email, email_category,
                   rag_queries, retrieved_documents, needs_human_attention,
                   generated_email, trials, writer_messages, sendable>>

\* check_new_emails answering "process" whatever the queue holds
check_new_emails_always_process == "process"

\* check_new_emails
check_new_emails == IF Len(emails) = 0 THEN "empty" ELSE "process"

\* is_email_inbox_empty, then the conditional edge on check_new_emails
is_email_inbox_empty ==
    /\ pc = "is_email_inbox_empty"
    /\ pc' = IF check_new_emails = "process" THEN "categorize_email"
             ELSE "END"
    /\ UNCHANGED <<env, read, seen_threads, reply, threads_with_drafts, rag_log,
                   transport, uuids, emails, current_email,
                   email_category, rag_queries, retrieved_documents,
                   needs_human_attention, generated_email, trials,
                   writer_messages, sendable, queued, calls>>

\* route_email_based_on_category without the lead_enquiry test
route_without_lead(category) ==
    IF category = "product_enquiry"
    THEN "product related"
    ELSE IF category = "unrelated" THEN "unrelated"
    ELSE IF category = "spam" THEN "spam"
    ELSE "not product related"

\* route_email_based_on_category
route_email_based_on_category(category) ==
    IF category = "product_enquiry" \/ category = "lead_enquiry"
    THEN "product related"
    ELSE IF category = "unrelated" THEN "unrelated"
    ELSE IF category = "spam" THEN "spam"
    ELSE "not product related"

\* the edge out of categorize_email with "spam" wired to the writer
CategoryEdgeSpamWritten(route) ==
    CASE route = "product related" -> "construct_rag_queries"
      [] route = "not product related" -> "email_writer"
      [] route = "unrelated" -> "skip_unrelated_email"
      [] route = "spam" -> "email_writer"

\* the targets of the conditional edge out of categorize_email
CategoryEdge(route) ==
    CASE route = "product related" -> "construct_rag_queries"
      [] route = "not product related" -> "email_writer"
      [] route = "unrelated" -> "skip_unrelated_email"
      [] route = "spam" -> "skip_spam_email"

\* categorize_email, then the conditional edge on the category
categorize_email ==
    /\ pc = "categorize_email"
    /\ IF emails = <<>>
       THEN Raise("IndexError")
       ELSE \E category \in Categories :
              /\ current_email' = Last(emails)
              /\ email_category' = category
              /\ calls' = [Called(calls, Last(emails), "categorized")
                              EXCEPT ![Last(emails)].route =
                                  route_email_based_on_category(category)]
              /\ pc' = CategoryEdge(route_email_based_on_category(category))
              /\ UNCHANGED <<env, read, seen_threads, reply,
                             threads_with_drafts, rag_log,
                             transport, uuids, emails, rag_queries,
                             retrieved_documents, needs_human_attention,
                             generated_email, trials, writer_messages,
                             sendable, queued>>

\* construct_rag_queries, then the edge to retrieve_from_rag
construct_rag_queries ==
    /\ pc = "construct_rag_queries"
    /\ \E n \in 0..MaxQueries :
         rag_queries' = [k \in 1..n |-> Query(k)]
    /\ calls' = Called(calls, current_email, "enriched")
    /\ pc' = "retrieve_from_rag"
    /\ UNCHANGED <<env, read, seen_threads, reply, threads_with_drafts, rag_log,
                   transport, uuids, emails, current_email,
                   email_category, retrieved_documents,
                   needs_human_attention, generated_email, trials,
                   writer_messages, sendable, queued>>

\* RetrieveLoop without the break on the sentinel
RECURSIVE RetrieveLoopNoBreak(_, _, _, _)
RetrieveLoopNoBreak(queries, results, k, acc) ==
    IF k > Len(queries) THEN acc
    ELSE LET made == Append(acc.log,
                            [query |-> queries[k], result |-> results[k]])
         IN  IF results[k] = null
             THEN RetrieveLoopNoBreak(queries, results, k + 1,
                      [acc EXCEPT !.human = TRUE, !.n = @ + 1, !.log = made])
             ELSE RetrieveLoopNoBreak(queries, results, k + 1,
                      [answer |-> acc.answer \o queries[k] \o <<"\n">>
                                    \o results[k] \o <<"\n", "\n">>,
                       human |-> acc.human,
                       n |-> acc.n + 1,
                       log |-> made])

\* RetrieveLoop putting each new answer in front of the accumulated ones
RECURSIVE RetrieveLoopPrepend(_, _, _, _)
RetrieveLoopPrepend(queries, results, k, acc) ==
    IF k > Len(queries) THEN acc
    ELSE LET made == Append(acc.log,
                            [query |-> queries[k], result |-> results[k]])
         IN  IF results[k] = null
             THEN [acc EXCEPT !.human = TRUE, !.n = @ + 1, !.log = made]
             ELSE RetrieveLoopPrepend(queries, results, k + 1,
                      [answer |-> queries[k] \o <<"\n">> \o results[k]
                                    \o <<"\n", "\n">> \o acc.answer,
                       human |-> acc.human,
                       n |-> acc.n + 1,
                       log |-> made])

\* the loop of retrieve_from_rag from query k on; results[k] is what
\* generate_rag_answer returns for query k; acc is [answer, human, n, log],
\* log listing the calls of generate_rag_answer made, with their results
RECURSIVE RetrieveLoop(_, _, _, _)
RetrieveLoop(queries, results, k, acc) ==
    IF k > Len(queries) THEN acc
    ELSE LET made == Append(acc.log,
                            [query |-> queries[k], result |-> results[k]])
         IN  IF results[k] = null
             THEN [acc EXCEPT !.human = TRUE, !.n = @ + 1, !.log = made]
             ELSE RetrieveLoop(queries, results, k + 1,
                      [answer |-> acc.answer \o queries[k] \o <<"\n">>
                                    \o results[k] \o <<"\n", "\n">>,
                       human |-> acc.human,
                       n |-> acc.n + 1,
                       log |-> made])

\* the edge out of retrieve_from_rag with both branches wired to the writer
HumanEdgeIgnored(needs) == "email_writer"

\* the targets of the conditional edge out of retrieve_from_rag
HumanEdge(needs) ==
    IF needs THEN "mark_for_human_attention" ELSE "email_writer"

\* retrieve_from_rag, then the conditional edge on needs_human_attention
retrieve_from_rag ==
    /\ pc = "retrieve_from_rag"
    /\ \E results \in [DOMAIN rag_queries -> BOOLEAN] :
         LET rag_result == [k \in DOMAIN rag_queries |->
                              IF results[k] THEN Answer(k) ELSE null]
             r == RetrieveLoop(rag_queries, rag_result, 1,
                               [answer |-> <<>>, human |-> FALSE, n |-> 0,
                                log |-> <<>>])
         IN  /\ retrieved_documents' = r.answer
             /\ needs_human_attention' = r.human
             /\ calls' = IF current_email \in DOMAIN calls
                         THEN [calls EXCEPT ![current_email].lookups = @ + r.n]
                         ELSE calls
             /\ rag_log' = r.log
             /\ pc' = HumanEdge(r.human)
    /\ UNCHANGED <<env, read, seen_threads, reply, threads_with_drafts,
                   transport, uuids, emails, current_email,
                   email_category, rag_queries, generated_email, trials,
                   writer_messages, sendable, queued>>

\* the inputs write_draft_email formats for the writer agent
WriterInputs ==
    [category |-> email_category,
     content |-> current_email.body,
     information |-> retrieved_documents]

\* write_draft_email, then the edge to email_proofreader.
\* The text the writer returns is named after the call that produced it.
write_draft_email ==
    /\ pc = "email_writer"
    /\ LET t == trials + 1
           email == <<"draft", current_email.body, ToString(t)>>
       IN  /\ generated_email' = email
           /\ trials' = t
           /\ writer_messages' =
                  Append(writer_messages,
                         [kind |-> "Draft", trial |-> t, text |-> email])
    /\ calls' = Called(calls, current_email, "writes")
    /\ pc' = "email_proofreader"
    /\ UNCHANGED <<env, read, seen_threads, reply, threads_with_drafts, rag_log,
                   transport, uuids, emails, current_email,
                   email_category, rag_queries, retrieved_documents,
                   needs_human_attention, sendable, queued>>

\* must_rewrite with the trial limit compared by > instead of >=
must_rewrite_late(email_sendable, n) ==
    IF email_sendable THEN "send"
    ELSE IF n > MAX_TRIALS THEN "stop"
    ELSE "rewrite"

\* must_rewrite: the branch taken for a verdict and a trial count
must_rewrite(email_sendable, n) ==
    IF email_sendable THEN "send"
    ELSE IF n >= MAX_TRIALS THEN "stop"
    ELSE "rewrite"

\* email_action with the direct send whatever human_interaction is
email_action_always_send == "send_email"

\* the node that handles an approved email (email_action)
email_action == IF human_interaction THEN "create_draft" ELSE "send_email"

\* the edge out of email_proofreader with "stop" wired to the send action
RewriteEdgeStopSends(branch) ==
    CASE branch = "send" -> email_action
      [] branch = "rewrite" -> "email_writer"
      [] branch = "stop" -> email_action

\* the targets of the conditional edge out of email_proofreader
RewriteEdge(branch) ==
    CASE branch = "send" -> email_action
      [] branch = "rewrite" -> "email_writer"
      [] branch = "stop" -> "categorize_email"

\* verify_generated_email, then the conditional edge on must_rewrite,
\* which pops the queue and clears writer_messages on "send" and "stop"
verify_generated_email ==
    /\ pc = "email_proofreader"
    /\ \E send \in BOOLEAN :
         LET branch == must_rewrite(send, trials)
             reviewed == Append(writer_messages,
                                [kind |-> "Proofreader Feedback",
                                 trial |-> trials,
                                 text |-> generated_email])
             verified == Called(calls, current_email, "verifies")
         IN  /\ sendable' = send
             /\ IF branch = "rewrite"
                THEN /\ writer_messages' = reviewed
                     /\ calls' = verified
                     /\ pc' = RewriteEdge(branch)
                     /\ UNCHANGED emails
                ELSE IF emails = <<>>
                THEN /\ writer_messages' = reviewed
                     /\ calls' = verified
                     /\ pc' = "IndexError"
                     /\ UNCHANGED emails
                ELSE /\ emails' = Pop(emails)
                     /\ writer_messages' = <<>>
                     /\ calls' =
                          LET popped == Called(verified, Last(emails), "pops")
                          IN  IF branch = "stop"
                              THEN Called(popped, current_email, "stops")
                              ELSE popped
                     /\ pc' = RewriteEdge(branch)
    /\ UNCHANGED <<env, read, seen_threads, reply, threads_with_drafts, rag_log,
                   transport, uuids, current_email, email_category,
                   rag_queries, retrieved_documents, needs_human_attention,
                   generated_email, trials, queued>>

\* create_draft_response, then the edge to is_email_inbox_empty;
\* ok tells whether create_draft_reply returned a result
create_draft_response ==
    /\ pc = "create_draft"
    /\ \E ok \in BOOLEAN :
         /\ transport' = IF ok THEN "draft_created" ELSE "draft_failed"
         /\ calls' = Called(calls, current_email, "drafts")
    /\ LET r == CreateReplyMessage(current_email, generated_email, FALSE,
                                   uuids)
       IN  /\ reply' = r.msg
           /\ uuids' = uuids + r.drew
    /\ retrieved_documents' = <<>>
    /\ trials' = 0
    /\ pc' = "is_email_inbox_empty"
    /\ UNCHANGED <<env, read, seen_threads, threads_with_drafts, rag_log,
                   emails, current_email, email_category,
                   rag_queries, needs_human_attention, generated_email,
                   writer_messages, sendable, queued>>

\* send_email_response going back to itself when send_reply failed
send_email_response_retry ==
    /\ pc = "send_email"
    /\ \E ok \in BOOLEAN :
         /\ transport' = IF ok THEN "sent" ELSE "send_failed"
         /\ calls' = Called(calls, current_email, "sends")
         /\ pc' = IF ok THEN "is_email_inbox_empty" ELSE "send_email"
    /\ LET r == CreateReplyMessage(current_email, generated_email, TRUE,
                                   uuids)
       IN  /\ reply' = r.msg
           /\ uuids' = uuids + r.drew
    /\ retrieved_documents' = <<>>
    /\ trials' = 0
    /\ UNCHANGED <<env, read, seen_threads, threads_with_drafts, rag_log,
                   emails,
                   current_email, email_category, rag_queries,
                   needs_human_attention, generated_email,
                   writer_messages, sendable, queued>>

\* send_email_response, then the edge to is_email_inbox_empty;
\* ok tells whether send_reply returned a result
send_email_response ==
    /\ pc = "send_email"
    /\ \E ok \in BOOLEAN :
         /\ transport' = IF ok THEN "sent" ELSE "send_failed"
         /\ calls' = Called(calls, current_email, "sends")
    /\ LET r == CreateReplyMessage(current_email, generated_email, TRUE,
                                   uuids)
       IN  /\ reply' = r.msg
           /\ uuids' = uuids + r.drew
    /\ retrieved_documents' = <<>>
    /\ trials' = 0
    /\ pc' = "is_email_inbox_empty"
    /\ UNCHANGED <<env, read, seen_threads, threads_with_drafts, rag_log,
                   emails, current_email, email_category,
                   rag_queries, needs_human_attention, generated_email,
                   writer_messages, sendable, queued>>

\* the nodes that call an agent
AgentNodes ==
    {"categorize_email", "construct_rag_queries", "retrieve_from_rag",
     "email_writer", "email_proofreader"}

\* the message a node at pc works on: categorize_email reads the tail of
\* the queue, the other nodes read current_email
Subject == IF pc = "categorize_email" THEN Last(emails) ELSE current_email

\* an agent call whose exception is swallowed, the run going on with the
\* node that handles an approved email
agent_raises_masked ==
    /\ pc \in AgentNodes
    /\ emails # <<>>
    /\ calls' = Called(calls, Subject, "raised")
    /\ pc' = email_action
    /\ UNCHANGED <<env, read, seen_threads, reply, threads_with_drafts,
                   rag_log, transport, uuids, emails, current_email,
                   email_category, rag_queries, retrieved_documents,
                   needs_human_attention, generated_email, trials,
                   writer_messages, sendable, queued>>

\* the agent call of the node at pc raises: no node catches it, the node
\* returns nothing and the exception leaves the graph
agent_raises ==
    /\ pc \in AgentNodes
    /\ emails # <<>>
    /\ calls' = Called(calls, Subject, "raised")
    /\ pc' = "AgentError"
    /\ UNCHANGED <<env, read, seen_threads, reply, threads_with_drafts,
                   rag_log, transport, uuids, emails, current_email,
                   email_category, rag_queries, retrieved_documents,
                   needs_human_attention, generated_email, trials,
                   writer_messages, sendable, queued>>

\* skip_unrelated_email, then the edge to is_email_inbox_empty
skip_unrelated_email ==
    /\ pc = "skip_unrelated_email"
    /\ IF emails = <<>>
       THEN Raise("IndexError")
       ELSE /\ emails' = Pop(emails)
            /\ calls' = Called(Called(calls, Last(emails), "pops"),
                               current_email, "skips")
            /\ pc' = "is_email_inbox_empty"
            /\ UNCHANGED <<env, read, seen_threads, reply,
                           threads_with_drafts, rag_log,
                           transport, uuids, current_email,
                           email_category, rag_queries, retrieved_documents,
                           needs_human_attention, generated_email, trials,
                           writer_messages, sendable, queued>>

\* skip_spam_email, then the edge to is_email_inbox_empty
skip_spam_email ==
    /\ pc = "skip_spam_email"
    /\ IF emails = <<>>
       THEN Raise("IndexError")
       ELSE /\ emails' = Pop(emails)
            /\ calls' = Called(Called(calls, Last(emails), "pops"),
                               current_email, "skips")
            /\ pc' = "is_email_inbox_empty"
            /\ UNCHANGED <<env, read, seen_threads, reply,
                           threads_with_drafts, rag_log,
                           transport, uuids, current_email,
                           email_category, rag_queries, retrieved_documents,
                           needs_human_attention, generated_email, trials,
                           writer_messages, sendable, queued>>

\* mark_for_human_attention, then the edge to is_email_inbox_empty
mark_for_human_attention ==
    /\ pc = "mark_for_human_attention"
    /\ IF emails = <<>>
       THEN Raise("IndexError")
       ELSE /\ emails' = Pop(emails)
            /\ calls' = Called(Called(calls, Last(emails), "pops"),
                               current_email, "escalations")
            /\ pc' = "is_email_inbox_empty"
            /\ UNCHANGED <<env, read, seen_threads, reply,
                           threads_with_drafts, rag_log,
                           transport, uuids, current_email,
                           email_category, rag_queries, retrieved_documents,
                           needs_human_attention, generated_email, trials,
                           writer_messages, sendable, queued>>

Next ==
    \/ load_new_emails
    \/ is_email_inbox_empty
    \/ categorize_email
    \/ construct_rag_queries
    \/ retrieve_from_rag
    \/ write_draft_email
    \/ verify_generated_email
    \/ create_draft_response
    \/ send_email_response
    \/ skip_unrelated_email
    \/ skip_spam_email
    \/ mark_for_human_attention

Spec == Init /\ [][Next]_vars

\* the graph runner always runs the next node: a run only ends at END or
\* with an exception
FairSpec == Spec /\ WF_vars(Next)

(* ------------------------ runs with agent errors ----------------------- *)
\* the run when the agent calls may raise
FailNext ==
    \/ Next
    \/ agent_raises

FailSpec == Init /\ [][FailNext]_vars

(* ----------------------- the tools on their own ----------------------- *)
\* EMAIL_CONFIG holds any of Configs and nothing was constructed
ToolsInit ==
    /\ config \in Configs
    /\ tools = NoTools
    /\ imap = NoConnection
    /\ runs = NoRuns
    /\ inbox = <<>>
    /\ drafts_folder = <<>>
    /\ human_interaction = FALSE
    /\ transport = "idle"
    /\ uuids = 0
    /\ pc = "load_inbox_emails"
    /\ emails = <<>>
    /\ current_email = NoEmail
    /\ email_category = ""
    /\ rag_queries = <<>>
    /\ retrieved_documents = <<>>
    /\ needs_human_attention = FALSE
    /\ generated_email = <<>>
    /\ trials = 0
    /\ writer_messages = <<>>
    /\ sendable = FALSE
    /\ threads_with_drafts = {}
    /\ rag_log = <<>>
    /\ read = {}
    /\ seen_threads = {}
    /\ reply = NoReply
    /\ queued = <<>>
    /\ calls = [e \in {} |-> NoCalls]

\* what the calls of the tools leave alone
graph_state ==
    <<inbox, drafts_folder, human_interaction, transport, uuids, pc, emails,
      current_email, email_category, rag_queries, retrieved_documents,
      needs_human_attention, generated_email, trials, writer_messages,
      sendable, threads_with_drafts, rag_log, read, seen_threads, reply,
      runs, queued, calls>>

\* EmailToolsClass.__init__
EmailToolsClass_init ==
    /\ tools.status = "none"
    /\ tools' = EmailToolsInit(config)
    /\ UNCHANGED <<graph_state, config, imap>>

\* connect_to_inbox on the constructed object
connect_to_inbox ==
    /\ tools.status = "built"
    /\ imap.status = "idle"
    /\ \E open \in Errors, login \in Errors, select1 \in Errors,
          select2 \in Errors :
         imap' = ConnectToInbox(open, login, select1, select2)
    /\ UNCHANGED <<graph_state, config, tools>>

\* what create_draft_reply leaves alone
draft_frame ==
    <<inbox, human_interaction, uuids, pc, emails, current_email,
      email_category, rag_queries, retrieved_documents,
      needs_human_attention, generated_email, trials, writer_messages,
      sendable, threads_with_drafts, rag_log, read, seen_threads, runs,
      queued, calls, config, tools, imap>>

\* create_draft_reply on the constructed object, for a message of the
\* mailbox; transport is what create_draft_response makes of the result
create_draft_reply ==
    /\ tools.status = "built"
    /\ transport = "idle"
    /\ \E msg \in SeqToSet(Mailbox), smtp \in BOOLEAN, folder \in BOOLEAN,
          select \in BOOLEAN, append \in BOOLEAN, open \in Errors,
          login \in Errors, select1 \in Errors, select2 \in Errors :
         LET message == CreateReplyMessage(GetEmailInfo(msg, uuids),
                                           <<"draft">>, FALSE, uuids).msg
             r == CreateDraftReply(smtp,
                      ConnectToInbox(open, login, select1, select2),
                      folder, select, append)
         IN  /\ reply' = message
             /\ drafts_folder' = IF r.stored
                                 THEN Append(drafts_folder, message)
                                 ELSE drafts_folder
             /\ transport' = IF r.returned THEN "draft_created"
                             ELSE "draft_failed"
    /\ UNCHANGED draft_frame

ToolsNext ==
    \/ EmailToolsClass_init
    \/ connect_to_inbox
    \/ create_draft_reply

ToolsSpec == ToolsInit /\ [][ToolsNext]_vars

(* -------------------- two runs on the same mailbox --------------------- *)
\* two runs are started on a mailbox of unread messages; nothing of the
\* single run of the graph moves
RaceInit ==
    /\ inbox \in Batches
    /\ drafts_folder \in DraftFolders
    /\ human_interaction \in BOOLEAN
    /\ runs = NoRuns
    /\ read = {}
    /\ uuids = 0
    /\ ToolsReady
    /\ transport = "idle"
    /\ pc = "load_inbox_emails"
    /\ emails = <<>>
    /\ current_email = NoEmail
    /\ email_category = ""
    /\ rag_queries = <<>>
    /\ retrieved_documents = <<>>
    /\ needs_human_attention = FALSE
    /\ generated_email = <<>>
    /\ trials = 0
    /\ writer_messages = <<>>
    /\ sendable = FALSE
    /\ threads_with_drafts = {}
    /\ rag_log = <<>>
    /\ seen_threads = {}
    /\ reply = NoReply
    /\ queued = <<>>
    /\ calls = [e \in {} |-> NoCalls]

\* the state of the single run, which the concurrent runs do not use
single_run ==
    <<inbox, human_interaction, config, tools, imap, transport, pc, emails,
      current_email, email_category, rag_queries, retrieved_documents,
      needs_human_attention, generated_email, trials, writer_messages,
      sendable, threads_with_drafts, rag_log, seen_threads, reply, queued,
      calls>>

\* fetch_recent_emails of run r up to mail.search: the ids of the unseen
\* messages
run_search(r) ==
    /\ runs[r].at = "search"
    /\ runs' = [runs EXCEPT ![r].at = "fetch",
                            ![r].ids = Unseen(inbox, read)]
    /\ UNCHANGED <<single_run, drafts_folder, read, uuids>>

\* fetch_recent_emails of run r from the loop on: every id the search
\* returned is fetched and flagged \Seen
run_fetch(r) ==
    /\ runs[r].at = "fetch"
    /\ runs' = [runs EXCEPT ![r].at = "scan", ![r].batch = runs[r].ids]
    /\ read' = read \cup SeqToSet(runs[r].ids)
    /\ UNCHANGED <<single_run, drafts_folder, uuids>>

\* the rest of fetch_unanswered_emails of run r: the drafts folder is
\* read and the fetched messages are filtered into the queue of the run
run_scan(r) ==
    /\ runs[r].at = "scan"
    /\ \E draftsOk \in BOOLEAN :
         LET f == FetchUnansweredEmails(runs[r].batch, drafts_folder,
                                        draftsOk, uuids)
         IN  /\ runs' = [runs EXCEPT ![r].at = "process",
                                     ![r].index = f.drafts,
                                     ![r].queue = f.out]
             /\ uuids' = f.u
    /\ UNCHANGED <<single_run, drafts_folder, read>>

\* one pass of the graph of run r over the tail of its queue: the pass
\* ends in send_email_response or create_draft_response when the email
\* was approved, and the message is popped either way; a draft is stored
\* in the drafts folder
run_pass(r) ==
    /\ runs[r].at = "process"
    /\ runs[r].queue # <<>>
    /\ LET email == Last(runs[r].queue)
           built == CreateReplyMessage(email, <<"draft">>,
                                       ~human_interaction, uuids)
       IN  \E approved \in BOOLEAN :
             IF approved
             THEN /\ runs' = [runs EXCEPT
                                ![r].queue = Pop(runs[r].queue),
                                ![r].dispatched =
                                    Append(runs[r].dispatched,
                                           email.threadId)]
                  /\ drafts_folder' =
                        IF human_interaction
                        THEN Append(drafts_folder, built.msg)
                        ELSE drafts_folder
                  /\ uuids' = uuids + built.drew
             ELSE /\ runs' = [runs EXCEPT ![r].queue = Pop(runs[r].queue)]
                  /\ UNCHANGED <<drafts_folder, uuids>>
    /\ UNCHANGED <<single_run, read>>

\* check_new_emails of run r finding its queue empty
run_end(r) ==
    /\ runs[r].at = "process"
    /\ runs[r].queue = <<>>
    /\ runs' = [runs EXCEPT ![r].at = "END"]
    /\ UNCHANGED <<single_run, drafts_folder, read, uuids>>

RaceNext ==
    \E r \in Runs :
        \/ run_search(r)
        \/ run_fetch(r)
        \/ run_scan(r)
        \/ run_pass(r)
        \/ run_end(r)

RaceSpec == RaceInit /\ [][RaceNext]_vars

(* ----------------------- retrieval on its own -------------------------- *)
\* the run at the entry of retrieve_from_rag: one product related message
\* is queued and current, and construct_rag_queries has returned a list of
\* up to MaxEnrichQueries queries
EnrichInit ==
    LET r == FetchUnansweredEmails(<<Mailbox[1]>>, <<>>, TRUE, 0)
        e == r.out[1]
    IN  /\ inbox = <<Mailbox[1]>>
        /\ drafts_folder = <<>>
        /\ human_interaction \in BOOLEAN
        /\ transport = "fetched"
        /\ uuids = r.u
        /\ pc = "retrieve_from_rag"
        /\ emails = r.out
        /\ current_email = e
        /\ email_category \in {"product_enquiry", "lead_enquiry"}
        /\ \E n \in 0..MaxEnrichQueries :
              rag_queries = [k \in 1..n |-> Query(k)]
        /\ retrieved_documents = <<>>
        /\ needs_human_attention = FALSE
        /\ generated_email = <<>>
        /\ trials = 0
        /\ writer_messages = <<>>
        /\ sendable = FALSE
        /\ threads_with_drafts = r.drafts
        /\ rag_log = <<>>
        /\ read = {Mailbox[1]}
        /\ seen_threads = r.seen
        /\ reply = NoReply
        /\ ToolsReady
        /\ runs = NoRuns
        /\ queued = r.out
        /\ calls = [x \in {e} |->
                      [NoCalls EXCEPT !.categorized = 1, !.enriched = 1,
                                      !.route = "product related"]]

\* the nodes a run goes through from retrieve_from_rag on
EnrichNext ==
    \/ retrieve_from_rag
    \/ mark_for_human_attention
    \/ write_draft_email
    \/ verify_generated_email
    \/ create_draft_response
    \/ send_email_response
    \/ is_email_inbox_empty
    \/ categorize_email

EnrichSpec == EnrichInit /\ [][EnrichNext]_vars

(* ------------------------ the snapshot on its own ---------------------- *)
\* the unread messages a batch is drawn from: those of Mailbox, a second
\* message without headers, a customer message on the thread of the
\* message sent from our own address, a second message on thread d, and a
\* message whose sender is exactly email_user
SnapPool ==
    Mailbox \o
    << [message_id |-> NoHeader, references |-> NoHeader,
        in_reply_to |-> NoHeader, from |-> Customer, body |-> "b6"],
       [message_id |-> <<"<", "f", ">">>, references |-> <<"<", "e", ">">>,
        in_reply_to |-> <<"<", "e", ">">>, from |-> Customer, body |-> "b7"],
       [message_id |-> <<"<", "g", ">">>,
        references |-> <<"<", "d", ">", " ", "<", "c", ">">>,
        in_reply_to |-> <<"<", "c", ">">>, from |-> Customer,
        body |-> "b8"],
       [message_id |-> <<"<", "h", ">">>, references |-> NoHeader,
        in_reply_to |-> NoHeader,
        from |-> [name |-> "m", addr |-> email_user], body |-> "b9"] >>

\* what fetch_recent_emails may return: up to MaxSnapBatch different
\* messages of SnapPool, in any order
SnapBatches ==
    UNION { { [i \in 1..n |-> SnapPool[f[i]]] :
                f \in { g \in [1..n -> DOMAIN SnapPool] :
                           \A i, j \in 1..n : g[i] = g[j] => i = j } } :
            n \in 0..MaxSnapBatch }

\* the drafts folder: empty, a draft on thread d, a draft on thread a,
\* both, or a draft without any header
SnapDraftFolders ==
    LET onD == [message_id |-> NoHeader,
                references |-> <<"<", "d", ">", " ", "<", "c", ">">>,
                in_reply_to |-> <<"<", "c", ">">>, from |-> Myself,
                body |-> "r3"]
        onA == [message_id |-> NoHeader,
                references |-> <<"<", "a", ">">>,
                in_reply_to |-> <<"<", "a", ">">>, from |-> Myself,
                body |-> "r1"]
        bare == [message_id |-> NoHeader, references |-> NoHeader,
                 in_reply_to |-> NoHeader, from |-> Myself, body |-> "r0"]
    IN  { <<>>, <<onD>>, <<onA>>, <<onD, onA>>, <<bare>> }

\* Init with the batch and the drafts folder drawn from the sets above
SnapInit ==
    /\ inbox \in SnapBatches
    /\ drafts_folder \in SnapDraftFolders
    /\ human_interaction \in BOOLEAN
    /\ transport = "idle"
    /\ uuids = 0
    /\ pc = "load_inbox_emails"
    /\ emails = <<>>
    /\ current_email = NoEmail
    /\ email_category = ""
    /\ rag_queries = <<>>
    /\ retrieved_documents = <<>>
    /\ needs_human_attention = FALSE
    /\ generated_email = <<>>
    /\ trials = 0
    /\ writer_messages = <<>>
    /\ sendable = FALSE
    /\ threads_with_drafts = {}
    /\ rag_log = <<>>
    /\ read = {}
    /\ seen_threads = {}
    /\ reply = NoReply
    /\ ToolsReady
    /\ runs = NoRuns
    /\ queued = <<>>
    /\ calls = [e \in {} |-> NoCalls]

\* load_new_emails and the check that follows it
SnapNext ==
    \/ load_new_emails
    \/ is_email_inbox_empty

SnapSpec == SnapInit /\ [][SnapNext]_vars

(* --------------------- one message, any headers ------------------------ *)
\* a customer message for every combination of References (absent, one
\* token, two tokens), In-Reply-To and Message-ID (absent or present)
HeaderMessages ==
    { [message_id |-> mid, references |-> refs, in_reply_to |-> irt,
       from |-> Customer, body |-> "h"] :
        refs \in { NoHeader, <<"<", "a", ">">>,
                   <<"<", "a", ">", " ", "<", "z", ">">> },
        irt \in { NoHeader, <<"<", "d", ">">> },
        mid \in { NoHeader, <<"<", "c", ">">> } }

\* Init with one unread message drawn from HeaderMessages and no drafts
IdentInit ==
    /\ inbox \in { <<msg>> : msg \in HeaderMessages }
    /\ drafts_folder = <<>>
    /\ human_interaction \in BOOLEAN
    /\ transport = "idle"
    /\ uuids = 0
    /\ pc = "load_inbox_emails"
    /\ emails = <<>>
    /\ current_email = NoEmail
    /\ email_category = ""
    /\ rag_queries = <<>>
    /\ retrieved_documents = <<>>
    /\ needs_human_attention = FALSE
    /\ generated_email = <<>>
    /\ trials = 0
    /\ writer_messages = <<>>
    /\ sendable = FALSE
    /\ threads_with_drafts = {}
    /\ rag_log = <<>>
    /\ read = {}
    /\ seen_threads = {}
    /\ reply = NoReply
    /\ ToolsReady
    /\ runs = NoRuns
    /\ queued = <<>>
    /\ calls = [e \in {} |-> NoCalls]

IdentSpec == IdentInit /\ [][Next]_vars

(* ------------------------------ properties ----------------------------- *)
\* the thread key identify gives a raw message that carries some header
HeaderKey(msg) == GetThreadId(msg, 0).key

\* the messages that went through the controller
Handled == { e \in DOMAIN calls : calls[e].categorized > 0 }

\* C1: in a run each ThreadKey is handled at most once: no two messages of
\* the queue share a thread key, no message is categorized twice, and all
\* send and create-draft calls for one thread key together are at most one.
C1_ThreadAtMostOnce ==
    /\ \A i, j \in DOMAIN queued :
          queued[i].threadId = queued[j].threadId => i = j
    /\ \A e \in DOMAIN calls :
          /\ calls[e].categorized <= 1
          /\ calls[e].sends + calls[e].drafts <= 1
    /\ \A e1, e2 \in Handled : e1.threadId = e2.threadId => e1 = e2
    /\ pc \in {"send_email", "create_draft"} => current_email \in DOMAIN calls

\* a batch held two messages of one thread and the run answered the thread
C1_Witness ==
    /\ pc = "END"
    /\ \E i, j \in DOMAIN inbox :
          i # j /\ HeaderKey(inbox[i]) = HeaderKey(inbox[j])
    /\ \E e \in DOMAIN calls : calls[e].sends + calls[e].drafts = 1

\* the run is over: the graph reached END or a node raised
Ended == pc \in {"END", "IndexError"}

\* C2: every enqueued message is removed from the queue exactly once: no
\* message is popped twice, a message is in the queue exactly as long as it
\* was not popped, and when the run is over the queue is empty and the
\* number of pops is the number of messages enqueued.
C2_PoppedExactlyOnce ==
    /\ \A e \in DOMAIN calls :
          /\ calls[e].pops <= 1
          /\ calls[e].pops = 0 <=> e \in SeqToSet(emails)
    /\ Len(emails) + Cardinality({ e \in DOMAIN calls : calls[e].pops = 1 })
          = Len(queued)
    /\ Ended => /\ emails = <<>>
                /\ \A e \in DOMAIN calls : calls[e].pops = 1

\* a run over two messages ended with both popped
C2_Witness ==
    /\ Ended
    /\ Len(queued) = 2
    /\ \A e \in DOMAIN calls : calls[e].pops = 1

\* C3: the revision loop makes at most 3 write calls and at most 3
\* verification calls for a message.
C3_BoundedRetries ==
    \A e \in DOMAIN calls :
        calls[e].writes <= MAX_TRIALS /\ calls[e].verifies <= MAX_TRIALS

\* a message was written and verified three times
C3_Witness ==
    \E e \in DOMAIN calls :
        calls[e].writes = MAX_TRIALS /\ calls[e].verifies = MAX_TRIALS

\* the revision loop of message e is over
LoopOver(e) == calls[e].writes > 0 /\ calls[e].pops = 1

\* C4: a revision loop ends sendable at the first sendable verdict and ends
\* not sendable exactly after the 3rd non-sendable verdict, not earlier: an
\* exhausted message got exactly 3 drafts and 3 verifications, an approved
\* one as many drafts as verifications.
C4_LoopEndsAtThirdVerdict ==
    \A e \in DOMAIN calls :
        LoopOver(e) =>
            /\ calls[e].writes = calls[e].verifies
            /\ calls[e].stops > 0 =>
                  calls[e].writes = MAX_TRIALS /\ calls[e].verifies = MAX_TRIALS

\* C5: trialCount never exceeds MAX_TRIALS and increases only in the write
\* step, by exactly 1.
C5_TrialsBounded ==
    [][/\ trials' <= MAX_TRIALS
       /\ trials' > trials => pc = "email_writer" /\ trials' = trials + 1]_vars

\* C6: when the next message starts being processed, trialCount is 0 and
\* feedbackHistory is empty, whatever terminal outcome came before.
C6_ResetBeforeNext ==
    (pc = "categorize_email" /\ emails # <<>>) =>
        trials = 0 /\ writer_messages = <<>>

\* C7: every run eventually reaches FINISH with the queue empty.
C7_ReachesFinish == <>(pc = "END" /\ emails = <<>>)

\* C8: a message whose revision loop ended by retry exhaustion is popped and
\* neither send nor create-draft is called for it.
C8_ExhaustedNotDispatched ==
    \A e \in DOMAIN calls :
        calls[e].stops > 0 =>
            /\ calls[e].stops = 1
            /\ calls[e].pops = 1
            /\ e \notin SeqToSet(emails)
            /\ calls[e].sends = 0
            /\ calls[e].drafts = 0

\* a message was exhausted and the run went on to its end
C8_Witness ==
    /\ Ended
    /\ \E e \in DOMAIN calls : calls[e].stops = 1 /\ calls[e].writes = MAX_TRIALS

\* the message being processed entered the node about to run
InProgress ==
    /\ current_email \in DOMAIN calls
    /\ pc \notin {"load_inbox_emails", "is_email_inbox_empty",
                   "categorize_email", "END", "IndexError"}

\* C9: enrichment is invoked for a message if and only if its category is
\* product_enquiry or lead_enquiry: such a message is routed to query
\* construction, and no query construction or lookup call is made for a
\* message of any other category.
C9_EnrichIffProductRelated ==
    /\ \A e \in DOMAIN calls :
          /\ calls[e].enriched + calls[e].lookups > 0 =>
                calls[e].route = "product related"
          /\ (calls[e].route = "product related"
               /\ ~(current_email = e /\ pc = "construct_rag_queries")) =>
                calls[e].enriched = 1
    /\ InProgress =>
          (calls[current_email].route = "product related"
             <=> email_category \in {"product_enquiry", "lead_enquiry"})

\* a lead enquiry was enriched with a lookup, a complaint was not
C9_Witness ==
    /\ Ended
    /\ email_category = "lead_enquiry"
    /\ calls[current_email].lookups = 1
    /\ \E e \in DOMAIN calls :
          calls[e].route = "not product related" /\ calls[e].writes > 0

\* C10: a message categorized as spam or unrelated goes from CATEGORIZE to
\* its SKIP node and from there to CHECK_EMPTY; it is popped there, and no
\* enrichment, draft, verify, send or create-draft call is made for it.
C10_SkipPath ==
    [][/\ (pc = "categorize_email" /\ pc' # "IndexError") =>
             /\ email_category' = "spam" => pc' = "skip_spam_email"
             /\ email_category' = "unrelated" => pc' = "skip_unrelated_email"
       /\ pc \in {"skip_spam_email", "skip_unrelated_email"} =>
             /\ pc' = "is_email_inbox_empty"
             /\ emails' = Pop(emails)
             /\ Last(emails) = current_email
             /\ calls'[current_email].pops = 1
       /\ \A e \in DOMAIN calls' :
             calls'[e].route \in {"spam", "unrelated"} =>
                 /\ calls'[e].enriched = 0
                 /\ calls'[e].lookups = 0
                 /\ calls'[e].writes = 0
                 /\ calls'[e].verifies = 0
                 /\ calls'[e].sends = 0
                 /\ calls'[e].drafts = 0
                 /\ calls'[e].skips <= 1]_vars

\* a spam message was skipped and popped without any other call
C10_Witness ==
    /\ pc = "is_email_inbox_empty"
    /\ email_category = "spam"
    /\ current_email \in DOMAIN calls
    /\ calls[current_email].skips = 1
    /\ calls[current_email].pops = 1
    /\ calls[current_email].writes = 0

\* C11: a message whose category is none of product_enquiry, lead_enquiry,
\* unrelated and spam is drafted directly, without enrichment and with an
\* empty context, wherever it sits in the run.
C11_DirectDraftEmptyContext ==
    (/\ pc = "email_writer"
     /\ current_email \in DOMAIN calls
     /\ calls[current_email].route = "not product related") =>
        /\ calls[current_email].enriched = 0
        /\ calls[current_email].lookups = 0
        /\ WriterInputs.information = <<>>

\* C12: when enrichment returns escalate=true the controller goes to
\* ESCALATE and from there to CHECK_EMPTY, the message is popped there and
\* no draft, verify, send or create-draft call is made for it; when
\* enrichment returns escalate=false the controller goes to DRAFT.
C12_EscalatePath ==
    [][/\ pc = "retrieve_from_rag" =>
             /\ needs_human_attention' => pc' = "mark_for_human_attention"
             /\ ~needs_human_attention' => pc' = "email_writer"
       /\ pc = "mark_for_human_attention" =>
             /\ pc' = "is_email_inbox_empty"
             /\ emails' = Pop(emails)
             /\ Last(emails) = current_email
             /\ calls'[current_email].pops = 1
       /\ \A e \in DOMAIN calls' :
             calls'[e].escalations > 0 =>
                 /\ calls'[e].escalations = 1
                 /\ calls'[e].writes = 0
                 /\ calls'[e].verifies = 0
                 /\ calls'[e].sends = 0
                 /\ calls'[e].drafts = 0]_vars

\* an enquiry was escalated and popped, and another one went on to be drafted
C12_Witness ==
    /\ Ended
    /\ \E e \in DOMAIN calls :
          calls[e].escalations = 1 /\ calls[e].pops = 1 /\ calls[e].writes = 0
    /\ \E e \in DOMAIN calls :
          calls[e].lookups = 1 /\ calls[e].escalations = 0 /\ calls[e].writes > 0

\* the sentinel is among the results of the lookups listed in log
SentinelIn(log) == \E i \in DOMAIN log : log[i].result = null

\* C13: retrieve_from_rag looks the queries up in order and stops at the
\* first lookup that returns the sentinel: the lookups made are the queries
\* of a prefix of the list, in order; the sentinel can only be the result of
\* the last lookup made; the loop stops before the end of the list only on
\* the sentinel; a sentinel sets needs_human_attention.
C13_StopsAtFirstSentinel ==
    [][pc = "retrieve_from_rag" =>
          /\ Len(rag_log') <= Len(rag_queries)
          /\ \A i \in DOMAIN rag_log' :
                /\ rag_log'[i].query = rag_queries[i]
                /\ rag_log'[i].result = null => i = Len(rag_log')
          /\ Len(rag_log') < Len(rag_queries) => SentinelIn(rag_log')
          /\ SentinelIn(rag_log') => needs_human_attention'
          /\ calls'[current_email].lookups =
                calls[current_email].lookups + Len(rag_log')]_vars

\* three queries, the sentinel on the second: exactly two lookups
C13_Witness ==
    /\ pc = "mark_for_human_attention"
    /\ Len(rag_queries) = 3
    /\ Len(rag_log) = 2
    /\ rag_log[1].result # null
    /\ rag_log[2].result = null
    /\ needs_human_attention

\* a text without its line breaks
WithoutNewlines(text) == SelectSeq(text, LAMBDA c : c # "\n")

\* each query followed by its answer, from the k-th lookup of log on
RECURSIVE QueryThenAnswer(_, _, _)
QueryThenAnswer(queries, log, k) ==
    IF k > Len(queries) THEN <<>>
    ELSE queries[k] \o log[k].result \o QueryThenAnswer(queries, log, k + 1)

\* C14: needs_human_attention is set exactly when a lookup made returned
\* the sentinel; when none did, every query was looked up once, in order,
\* needs_human_attention is false and retrieved_documents is, line breaks
\* apart, each query followed by its answer, in query order.
C14_FullContext ==
    [][pc = "retrieve_from_rag" =>
          /\ needs_human_attention' <=> SentinelIn(rag_log')
          /\ ~SentinelIn(rag_log') =>
                /\ Len(rag_log') = Len(rag_queries)
                /\ \A i \in DOMAIN rag_log' :
                      rag_log'[i].query = rag_queries[i]
                /\ ~needs_human_attention'
                /\ WithoutNewlines(retrieved_documents') =
                      QueryThenAnswer(rag_queries, rag_log', 1)]_vars

\* three queries all answered
C14_Witness ==
    /\ pc = "email_writer"
    /\ Len(rag_queries) = 3
    /\ Len(rag_log) = 3
    /\ ~SentinelIn(rag_log)
    /\ ~needs_human_attention
    /\ Len(retrieved_documents) > Len(QueryThenAnswer(rag_queries, rag_log, 1))

\* the proofreader approved an email for message e
Approved(e) ==
    /\ calls[e].writes > 0
    /\ calls[e].pops = 1
    /\ calls[e].stops = 0

\* message e is at the node that handles its approved email
AtDispatch(e) ==
    /\ current_email = e
    /\ pc \in {"create_draft", "send_email"}

\* C15: a message whose email was approved gets, once its dispatch node
\* has run, exactly one create_draft_reply call and no send_reply call when
\* human_interaction is set, and exactly one send_reply call and no
\* create_draft_reply call when it is not; before that node ran it got
\* neither, and the node reached is the one human_interaction selects.
C15_DispatchByMode ==
    /\ pc = "create_draft" => human_interaction
    /\ pc = "send_email" => ~human_interaction
    /\ \A e \in DOMAIN calls :
          Approved(e) =>
              IF AtDispatch(e)
              THEN calls[e].drafts = 0 /\ calls[e].sends = 0
              ELSE IF human_interaction
              THEN calls[e].drafts = 1 /\ calls[e].sends = 0
              ELSE calls[e].sends = 1 /\ calls[e].drafts = 0

\* a run under human review that is over, with a draft made for an approved
\* email
C15_Witness ==
    /\ pc = "END"
    /\ human_interaction
    /\ \E e \in DOMAIN calls :
          Approved(e) /\ calls[e].drafts = 1 /\ calls[e].sends = 0

\* the outcomes of a dispatch that failed
Failed == {"send_failed", "draft_failed"}

\* C16: when send_reply or create_draft_reply fails, the run goes on: the
\* node still resets trials and retrieved_documents, the message was popped
\* and stays popped, the queue keeps the remaining messages, the node is
\* left for is_email_inbox_empty, and no message ever gets a second
\* dispatch call.
C16_FailureNotFatal ==
    [][(pc \in {"create_draft", "send_email"} /\ transport' \in Failed) =>
          /\ pc' = "is_email_inbox_empty"
          /\ trials' = 0
          /\ retrieved_documents' = <<>>
          /\ writer_messages' = <<>>
          /\ emails' = emails
          /\ current_email \notin SeqToSet(emails')
          /\ calls'[current_email].pops = 1
          /\ \A e \in DOMAIN calls' :
                calls'[e].sends + calls'[e].drafts <= 1]_vars

\* a send failed and another message is still queued
C16_Witness ==
    /\ transport = "send_failed"
    /\ pc = "is_email_inbox_empty"
    /\ emails # <<>>
    /\ trials = 0
    /\ calls[current_email].sends = 1
    /\ calls[current_email].pops = 1

\* the batch fetch_unanswered_emails went through
Fetched == transport = "fetched"

\* C17: whatever the batch and the drafts folder, no two messages of the
\* list fetch_unanswered_emails returns have the same threadId.
C17_NoSharedThreadKey ==
    \A i, j \in DOMAIN queued :
        queued[i].threadId = queued[j].threadId => i = j

\* three messages of three different threads are returned, from a batch
\* whose drafts folder is not empty
C17_Witness ==
    /\ Fetched
    /\ Len(queued) = 3
    /\ threads_with_drafts # {}

\* a raw message carries a header a thread key is derived from
HasHeader(msg) ==
    \/ msg.references # NoHeader
    \/ msg.in_reply_to # NoHeader
    \/ msg.message_id # NoHeader

\* the thread key of the i-th message of the batch; a message without
\* headers is a thread of its own
KeyAt(i) ==
    IF HasHeader(inbox[i]) THEN HeaderKey(inbox[i])
    ELSE <<"no header", ToString(i)>>

\* the positions in the batch of the messages returned
Returned == { i \in DOMAIN inbox :
                \E k \in DOMAIN queued : queued[k].body = inbox[i].body }

\* C18: a message of the batch whose thread key is in threads_with_drafts
\* is not returned, wherever it stands in the batch, and no message
\* returned has a threadId in threads_with_drafts.
C18_DraftedExcluded ==
    Fetched =>
        /\ \A i \in DOMAIN inbox :
              KeyAt(i) \in threads_with_drafts => i \notin Returned
        /\ \A k \in DOMAIN queued :
              queued[k].threadId \notin threads_with_drafts

\* two messages on the drafted thread d and one on another thread: exactly
\* that one is returned
C18_Witness ==
    /\ Fetched
    /\ Len(inbox) = 3
    /\ Cardinality({ i \in DOMAIN inbox :
                       KeyAt(i) \in threads_with_drafts }) = 2
    /\ Len(queued) = 1
    /\ queued[1].threadId \notin threads_with_drafts

\* the thread keys of the batch
BatchKeys == { KeyAt(i) : i \in DOMAIN inbox }

\* C19: a batch across K distinct thread keys gives exactly K messages,
\* one per key.
C19_OnePerKey ==
    Fetched =>
        /\ Len(queued) = Cardinality(BatchKeys)
        /\ \A key \in BatchKeys :
              Cardinality({ i \in Returned : KeyAt(i) = key }) = 1

\* the first position of a thread key in the batch
FirstAt(key) ==
    CHOOSE i \in DOMAIN inbox :
        /\ KeyAt(i) = key
        /\ \A j \in DOMAIN inbox : KeyAt(j) = key => i <= j

\* the thread keys a message is returned for: those not in
\* threads_with_drafts whose first message was not sent from our address
KeptKeys ==
    { key \in BatchKeys :
        /\ key \notin threads_with_drafts
        /\ ~ShouldSkipEmail(GetEmailInfo(inbox[FirstAt(key)], 0)) }

\* C19 as amended: the list returned has exactly one message for every
\* thread key of the batch that is not in threads_with_drafts and whose
\* first message in the batch was not sent from our own address, and no
\* other message.
C19_OnePerKeptKey ==
    Fetched =>
        /\ Len(queued) = Cardinality(KeptKeys)
        /\ Cardinality(Returned) = Len(queued)
        /\ \A i \in Returned : KeyAt(i) \in KeptKeys
        /\ \A key \in KeptKeys :
              Cardinality({ i \in Returned : KeyAt(i) = key }) = 1

\* three raw messages across a drafted thread, a thread opened by our own
\* message and a third thread give one message
C19_Witness ==
    /\ Fetched
    /\ Len(inbox) = 3
    /\ Cardinality(BatchKeys) = 3
    /\ \E key \in BatchKeys : key \in threads_with_drafts
    /\ \E key \in BatchKeys \ threads_with_drafts : key \notin KeptKeys
    /\ Len(queued) = 1

\* C20: every message returned is the first message of its thread key in
\* the order of the batch.
C20_FirstOccurrenceKept ==
    Fetched =>
        \A i \in Returned :
            \A j \in DOMAIN inbox : KeyAt(j) = KeyAt(i) => i <= j

\* two messages of one thread in the batch, the first of them returned
C20_Witness ==
    /\ Fetched
    /\ \E i \in Returned :
          \E j \in DOMAIN inbox : j > i /\ KeyAt(j) = KeyAt(i)

\* C21: no message returned by fetch_unanswered_emails has email_user as
\* its sender: a message of the batch sent from that address is not
\* returned, and neither the queue nor the current message holds one.
C21_OwnMailExcluded ==
    /\ \A i \in DOMAIN inbox :
          ParseAddr(inbox[i].from) = email_user => i \notin Returned
    /\ \A k \in DOMAIN queued : queued[k].sender # email_user
    /\ \A k \in DOMAIN emails : emails[k].sender # email_user
    /\ current_email.sender # email_user

\* a batch with a message from email_user and a customer message: only
\* the customer message is returned
C21_Witness ==
    /\ Fetched
    /\ Len(inbox) = 2
    /\ \E i \in DOMAIN inbox : ParseAddr(inbox[i].from) = email_user
    /\ Len(queued) = 1

\* C22: when fetch_recent_emails fails, the queue is empty and the run
\* goes from is_email_inbox_empty to END: no message is recorded, so no
\* node made a call for one.
C22_FetchFailureEndsRun ==
    transport = "fetch_failed" =>
        /\ queued = <<>>
        /\ emails = <<>>
        /\ DOMAIN calls = {}
        /\ current_email = NoEmail
        /\ pc \in {"is_email_inbox_empty", "END"}

\* the fetch failed although unread messages were waiting, and the run is
\* over
C22_Witness ==
    /\ transport = "fetch_failed"
    /\ inbox # <<>>
    /\ pc = "END"

\* fetch_draft_replies raised: the drafts folder holds drafts and
\* threads_with_drafts is empty all the same
DraftsFetchFailed ==
    /\ Fetched
    /\ drafts_folder # <<>>
    /\ threads_with_drafts = {}

\* C23: when fetch_draft_replies fails, fetch_unanswered_emails returns
\* what it returns for the same batch with an empty drafts folder, and the
\* run goes on with those messages.
C23_DraftsFailureNotFatal ==
    DraftsFetchFailed =>
        /\ queued = FetchUnansweredEmails(inbox, <<>>, TRUE, 0).out
        /\ emails = queued
        /\ pc = "END" => queued = <<>>

\* the drafts fetch failed and a message of a drafted thread is queued for
\* categorize_email
C23_Witness ==
    /\ DraftsFetchFailed
    /\ pc = "categorize_email"
    /\ \E k \in DOMAIN queued :
          queued[k].threadId \in DraftThreadIds(drafts_folder,
                                       [ids |-> {}, u |-> 0]).ids

\* a message id between its angle brackets
Wrapped(key) == <<"<">> \o key \o <<">">>

\* the text starts with the token and the token ends there
StartsWithToken(text, token) ==
    /\ Len(text) >= Len(token)
    /\ SubSeq(text, 1, Len(token)) = token
    /\ Len(text) > Len(token) => text[Len(token) + 1] = " "

\* C24: the threadId of a fetched message follows the precedence
\* References, In-Reply-To, Message-ID: with a References header it is the
\* first token of that header without its angle brackets, whatever the
\* other two headers hold; without one it is In-Reply-To without brackets
\* when that header is there; else Message-ID without brackets.
C24_KeyPrecedence ==
    (Fetched /\ queued # <<>>) =>
        LET msg == inbox[1]
            key == queued[1].threadId
        IN  IF msg.references # NoHeader
            THEN StartsWithToken(msg.references, Wrapped(key))
            ELSE IF msg.in_reply_to # NoHeader
            THEN msg.in_reply_to = Wrapped(key)
            ELSE msg.message_id # NoHeader => msg.message_id = Wrapped(key)

\* all three headers set, two tokens in References: the key is the first
\* references token
C24_Witness ==
    /\ Fetched
    /\ Len(queued) = 1
    /\ Len(Split(inbox[1].references)) = 2
    /\ inbox[1].in_reply_to # NoHeader
    /\ inbox[1].message_id # NoHeader
    /\ queued[1].threadId = <<"a">>

\* C25: for a message with one of the three headers, _get_thread_id gives
\* the same key however often it is called: the key checked against
\* seen_threads is the key recorded as threadId, and no uuid is drawn; for
\* a message with none of them the two calls made for it give two
\* different keys; the key is never empty.
C25_DeterministicWithHeaders ==
    (Fetched /\ queued # <<>>) =>
        LET msg == inbox[1]
            key == queued[1].threadId
        IN  /\ key # <<>>
            /\ HasHeader(msg) =>
                  /\ seen_threads = {key}
                  /\ \A u1, u2 \in 0..2 :
                        /\ GetThreadId(msg, u1) = GetThreadId(msg, u2)
                        /\ GetThreadId(msg, u1).drew = 0
            /\ ~HasHeader(msg) =>
                  /\ Cardinality(seen_threads) = 1
                  /\ key \notin seen_threads
                  /\ <<>> \notin seen_threads

\* a message without headers was fetched: two uuids were drawn for it
C25_Witness ==
    /\ Fetched
    /\ pc = "is_email_inbox_empty"
    /\ Len(queued) = 1
    /\ ~HasHeader(inbox[1])
    /\ uuids = 2

\* C26: the reply built for a message that has a Message-ID carries
\* In-Reply-To and References headers from which _get_thread_id derives the
\* thread key of the original message.
C26_ReplyKeepsThread ==
    (reply # NoReply /\ inbox[1].message_id # NoHeader) =>
        /\ reply.in_reply_to # NoHeader
        /\ reply.references # NoHeader
        /\ GetThreadId(reply, uuids).key = HeaderKey(inbox[1])

\* the nodes that run between the categorization of a message and its pop
BeforePop ==
    {"construct_rag_queries", "retrieve_from_rag", "email_writer",
     "email_proofreader", "skip_unrelated_email", "skip_spam_email",
     "mark_for_human_attention"}

\* the messages categorized and not yet popped
Open == { e \in DOMAIN calls :
            calls[e].categorized > 0 /\ calls[e].pops = 0 }

\* C27: messages are handled one at a time: at most one message is
\* categorized and not yet popped, and it is the current one; the next
\* message is categorized only when none is open; and the writer, the
\* proofreader and the dispatch nodes are called with the data of the
\* current message only: the context was looked up for it, the history
\* holds its own drafts, the draft is a draft of its body.
C27_OneAtATime ==
    /\ Cardinality(Open) <= 1
    /\ Open # {} => (Open = {current_email} /\ pc \in BeforePop)
    /\ pc = "categorize_email" => Open = {}
    /\ (pc = "email_writer" /\ current_email \in DOMAIN calls) =>
          /\ WriterInputs.information # <<>> =>
                calls[current_email].lookups > 0
          /\ \A k \in DOMAIN writer_messages :
                writer_messages[k].text[2] = current_email.body
    /\ pc \in {"email_proofreader", "create_draft", "send_email"} =>
          generated_email[2] = current_email.body

\* C28: the message being handled is the tail of the queue until it is
\* popped, the pop removes it, and the queue is always what is left of the
\* snapshot once its last messages were popped: the messages are handled
\* from the last of the snapshot to the first.
C28_TailFirst ==
    /\ Len(emails) <= Len(queued)
    /\ emails = SubSeq(queued, 1, Len(emails))
    /\ (pc \in BeforePop /\ current_email \in DOMAIN calls) =>
          /\ emails # <<>>
          /\ current_email = Last(emails)
    /\ \A k \in DOMAIN queued :
          /\ k > Len(emails) =>
                /\ calls[queued[k]].pops = 1
                /\ calls[queued[k]].categorized = 1
          /\ k < Len(emails) => calls[queued[k]].categorized = 0
          /\ k <= Len(emails) => calls[queued[k]].pops = 0

\* the last message of a snapshot of two was handled and popped and the
\* first one is now the one being handled
C28_Witness ==
    /\ Len(queued) = 2
    /\ Len(emails) = 1
    /\ pc \in BeforePop
    /\ current_email = queued[1]
    /\ calls[queued[2]].pops = 1

\* C29: when an agent call raises while a message is handled, the run
\* stops at that exception: the message is not popped, and no send_reply
\* or create_draft_reply call is ever made for it.
C29_AgentErrorPropagates ==
    \A e \in DOMAIN calls :
        calls[e].raised > 0 =>
            /\ pc = "AgentError"
            /\ calls[e].raised = 1
            /\ calls[e].pops = 0
            /\ calls[e].sends = 0
            /\ calls[e].drafts = 0
            /\ emails # <<>> /\ Last(emails) = e

\* the proofreader raised on the second draft of a message
C29_Witness ==
    /\ pc = "AgentError"
    /\ current_email \in DOMAIN calls
    /\ calls[current_email].raised = 1
    /\ calls[current_email].writes = 2
    /\ calls[current_email].verifies = 1

\* C30: a message handed to mark_for_human_attention is not flagged \Seen
\* in the mailbox when the run is over, and no reply was sent or drafted
\* for it.
C30_EscalatedLeftUnread ==
    pc = "END" =>
        \A e \in DOMAIN calls :
            calls[e].escalations > 0 =>
                /\ \A msg \in read : msg.body # e.body
                /\ calls[e].sends = 0
                /\ calls[e].drafts = 0

\* the required settings that are None or empty
Lacking == { f \in SeqToSet(required_fields) : Falsy(config[f]) }

\* C31: constructing the tools with a required setting missing or empty
\* raises a ValueError that names exactly the lacking settings, and no
\* object exists; with the four settings present the object is built and
\* holds the configured values.
C31_ConfigValidated ==
    tools.status # "none" =>
        IF Lacking # {}
        THEN /\ tools.status = "ValueError"
             /\ SeqToSet(tools.missing) = Lacking
             /\ [tools EXCEPT !.status = "none", !.missing = <<>>] = NoTools
        ELSE /\ tools.status = "built"
             /\ tools.missing = <<>>
             /\ \A f \in SeqToSet(required_fields) : tools[f] = config[f]
             /\ tools.smtp_port = config.smtp_port

\* construction failed on an empty email_user and a missing smtp_server
C31_Witness ==
    /\ tools.status = "ValueError"
    /\ config.email_user = Empty
    /\ config.smtp_server = Unset
    /\ tools.missing = <<"email_user", "smtp_server">>

\* connect_to_inbox returned or raised
Connecting == imap.status # "idle"

C33_RewriteKeepsQueue ==
    [][pc = "email_proofreader" =>
        /\ pc' = "email_writer" <=> (~sendable' /\ trials < MAX_TRIALS)
        /\ pc' = "email_writer" =>
              /\ emails' = emails
              /\ current_email' = current_email
        /\ emails' # emails =>
              /\ sendable' \/ trials >= MAX_TRIALS
              /\ emails' = Pop(emails)
              /\ current_email' = current_email]_vars

\* the email of the current message was sent back for a rewrite and the
\* message is still the tail of the queue
C33_Witness ==
    /\ pc = "email_writer"
    /\ current_email \in DOMAIN calls
    /\ calls[current_email].verifies = 1
    /\ calls[current_email].pops = 0
    /\ ~sendable
    /\ emails # <<>>
    /\ Last(emails) = current_email

\* C34 as stated: the threadId recorded in every enqueued message is a key
\* the snapshot entered in seen_threads, that is the key its duplicate and
\* draft checks were made with, whatever headers the message has.
C34_RecordedKeyIsDedupKey ==
    \A k \in DOMAIN queued : queued[k].threadId \in seen_threads

\* the run is back at categorize_email because the trials of the current
\* message were exhausted
Exhausted ==
    /\ pc = "categorize_email"
    /\ current_email \in DOMAIN calls
    /\ calls[current_email].stops > 0

\* the proofreader step that exhausts the trials of the current message
Exhausting ==
    /\ pc = "email_proofreader"
    /\ ~sendable'
    /\ trials >= MAX_TRIALS
    /\ emails # <<>>

\* C35 as stated: on exhaustion the run goes straight to categorize_email,
\* and that step categorizes the exhausted message once more, the current
\* message staying the one that was popped.
C35_StaleRecategorized ==
    [][/\ Exhausting => pc' = "categorize_email"
       /\ Exhausted =>
             /\ current_email' = current_email
             /\ calls'[current_email].categorized =
                    calls[current_email].categorized + 1]_vars

\* C35: on exhaustion the run pops the message and goes straight to
\* categorize_email, not to is_email_inbox_empty; that step reads the new
\* tail of the queue: it categorizes the next message, which becomes the
\* current one, and the exhausted message is not categorized again; with
\* nothing left in the queue the step raises IndexError and categorizes
\* nothing.
C35_NextTailCategorized ==
    [][/\ Exhausting =>
             /\ pc' = "categorize_email"
             /\ emails' = Pop(emails)
       /\ Exhausted =>
             IF emails = <<>>
             THEN /\ pc' = "IndexError"
                  /\ calls' = calls
                  /\ current_email' = current_email
             ELSE /\ current_email' = Last(emails)
                  /\ current_email' # current_email
                  /\ calls'[current_email].categorized =
                         calls[current_email].categorized
                  /\ calls'[Last(emails)].categorized =
                         calls[Last(emails)].categorized + 1]_vars

\* after an exhausted message the next one was categorized without a
\* check of the queue in between
C35_Witness ==
    /\ pc \in BeforePop
    /\ current_email \in DOMAIN calls
    /\ calls[current_email].categorized = 1
    /\ calls[current_email].stops = 0
    /\ \E e \in DOMAIN calls :
          /\ calls[e].stops = 1
          /\ calls[e].categorized = 1
    /\ trials >= MAX_TRIALS

\* the thread ids run r dispatched a reply for
Dispatched(r) == SeqToSet(runs[r].dispatched)

\* C36: the filter of a run only knows the drafts the run found itself:
\* no run dispatches a reply for a thread of its own draft index, nor two
\* replies for one thread, and yet two runs on the same mailbox can both
\* dispatch a reply for the same thread.
C36_OwnIndexOnly ==
    \A r \in Runs :
        /\ Dispatched(r) \cap runs[r].index = {}
        /\ Cardinality(Dispatched(r)) = Len(runs[r].dispatched)

\* both runs dispatched a reply for the same thread
C36_Witness ==
    /\ Dispatched("A") \cap Dispatched("B") # {}
    /\ runs["A"].at = "END"
    /\ runs["B"].at = "END"

\* C37 as stated: create_draft_reply returns a result only when the draft
\* was stored; a draft that neither the SMTP path nor the IMAP APPEND
\* path stored comes back as a failure.
C37_SuccessMeansStored ==
    transport = "draft_created" =>
        \E k \in DOMAIN drafts_folder : drafts_folder[k] = reply

\* a dispatch node has just run for the current message
JustDispatched ==
    /\ pc = "is_email_inbox_empty"
    /\ current_email \in DOMAIN calls
    /\ calls[current_email].sends + calls[current_email].drafts > 0

\* C38: a dispatch node is entered only for the message categorized in
\* this pass, with the verdict of its own last verification, which is
\* sendable, and with the email the writer produced last for it; the
\* reply the node builds goes to the sender of that message, answers its
\* Message-ID and carries that email.
C38_DispatchOwnDraft ==
    /\ pc \in {"create_draft", "send_email"} =>
          /\ current_email \in DOMAIN calls
          /\ calls[current_email].categorized = 1
          /\ calls[current_email].writes > 0
          /\ calls[current_email].verifies = calls[current_email].writes
          /\ calls[current_email].stops = 0
          /\ sendable
          /\ generated_email =
                <<"draft", current_email.body, ToString(trials)>>
    /\ JustDispatched =>
          /\ sendable
          /\ reply.to = current_email.sender
          /\ reply.in_reply_to = current_email.messageId
          /\ reply.body = generated_email
          /\ generated_email[2] = current_email.body

\* a reply was dispatched for a message handled right after a message
\* whose trials were exhausted
C38_Witness ==
    /\ JustDispatched
    /\ reply.body[2] = current_email.body
    /\ \E e \in DOMAIN calls : e # current_email /\ calls[e].stops = 1

\* C39 as stated: categorize_email is never entered with an empty queue,
\* whether it is entered from is_email_inbox_empty or from the proofreader.
C39_CategorizeFindsTail ==
    pc = "categorize_email" => Len(emails) > 0

\* a message of the batch sent from our own address
OwnAt(i) == ShouldSkipEmail(GetEmailInfo(inbox[i], 0))

\* C40: a thread key that is not drafted and whose first message in the
\* batch was sent from our own address is in seen_threads, and no message
\* of that thread is returned, whoever sent the later ones.
C40_OwnFirstSilencesThread ==
    Fetched =>
        \A key \in BatchKeys \ threads_with_drafts :
            OwnAt(FirstAt(key)) =>
                /\ HasHeader(inbox[FirstAt(key)]) => key \in seen_threads
                /\ \A i \in DOMAIN inbox : KeyAt(i) = key => i \notin Returned

\* our own message opens a thread of the batch and a customer's message
\* on that thread follows it: the key was seen and nothing is returned
\* for it
C40_Witness ==
    /\ Fetched
    /\ \E i, j \in DOMAIN inbox :
          /\ i < j
          /\ KeyAt(i) = KeyAt(j)
          /\ FirstAt(KeyAt(i)) = i
          /\ OwnAt(i)
          /\ ~OwnAt(j)
          /\ KeyAt(i) \in seen_threads
          /\ KeyAt(i) \notin threads_with_drafts
          /\ j \notin Returned

====
